---- MODULE Spec2Model ----
(***************************************************************************)
(* The LS-8 style emulator of cpu_final.py: class CPU with its fetch /     *)
(* decode / dispatch loop (run), the ALU (alu), the stack (push_value,     *)
(* pop_value) and the interrupt controller (check_timer_interrupt,         *)
(* handle_interrupts, op_iret).                                            *)
(*                                                                         *)
(* Python integers are unbounded and list indices may be negative; both    *)
(* are kept: a register holds any integer of magnitude below IntCap, and   *)
(* ram[k] / reg[k] follow Python's list indexing (k < 0 counts from the    *)
(* end, anything outside raises IndexError).  An exception ends run: the   *)
(* state keeps whatever the statements before the raise had written.       *)
(***************************************************************************)
EXTENDS Integers, Sequences, FiniteSets, TLC

\* ----------------------------------------------------------------- bounds
\* Registers, memory cells, FL and PC hold Python ints v with -IntCap < v < IntCap.
IntCap == 131072
\* A float is a quotient n/d with -FloatCap < n < FloatCap and 1 <= d < FloatCap.
FloatCap == 4096
\* Cycles of the while loop of run that the model follows.
MaxCycles == 12
\* The longest run of pushes followed by as many pops that the stack property examines.
MaxPush == 2

\* ---------------------------------------------------------------- opcodes
ADD  == 160
AND  == 168
CALL == 80
CMP  == 167
DEC  == 102
DIV  == 163
HLT  == 1
INC  == 101
IRET == 19
JEQ  == 85
JLE  == 89
JLT  == 88
JMP  == 84
JNE  == 86
LD   == 131
LDI  == 130
MUL  == 162
OR   == 170
POP  == 70
PRA  == 72
PRN  == 71
PUSH == 69
RET  == 17
SHL  == 172
ST   == 132
SUB  == 161
XOR  == 171

\* Reserved general-purpose register numbers
IM == 5
IS == 6
SP == 7

\* CMP flags
FL_LT == 4
FL_GT == 2
FL_EQ == 1

\* IS flags
IS_TIMER == 1
IS_KEYBOARD == 2

\* The literal 0x11111000 of alu's CMP branch (a hexadecimal literal, not a binary one).
CMP_CLEAR_MASK == 286330880
\* Address of the first cell of the interrupt vector table (0xf8).
VECTORS == 248
\* len(self.ram) and len(self.reg)
RAM_SIZE == 256
REG_COUNT == 8
\* Initial stack pointer (0xf4)
SP_INIT == 244

\* ------------------------------------------------------- Python numbers
Fits(v) == -IntCap < v /\ v < IntCap

RECURSIVE Pow2(_)
Pow2(n) == IF n <= 0 THEN 1 ELSE 2 * Pow2(n - 1)

\* x & y on Python ints (two's complement of unbounded width).
RECURSIVE BitAnd(_, _)
BitAnd(x, y) ==
    IF x = 0 \/ y = 0 THEN 0
    ELSE IF x = -1 THEN y
    ELSE IF y = -1 THEN x
    ELSE (x % 2) * (y % 2) + 2 * BitAnd(x \div 2, y \div 2)

\* ~x on Python ints.
BitNot(x) == -x - 1

\* x | y and x ^ y on Python ints.
BitOr(x, y) == BitNot(BitAnd(BitNot(x), BitNot(y)))
BitXor(x, y) == BitOr(x, y) - BitAnd(x, y)

Abs(x) == IF x < 0 THEN -x ELSE x

RECURSIVE Gcd(_, _)
Gcd(a, b) == IF b = 0 THEN a ELSE Gcd(b, a % b)

\* A Python float, the result of true division.  The float nearest to n/d (d >= 1,
\* n/d in lowest terms) is written as the number IntCap + (n + FloatCap) * FloatCap + d,
\* which no int of the model equals, so that ints and floats stay comparable values.
IsFloat(v) == v >= IntCap
FloatNum(v) == ((v - IntCap) \div FloatCap) - FloatCap
FloatDen(v) == (v - IntCap) % FloatCap
\* (IntCap itself, which is neither an int of the model nor a float, when n or d is
\* beyond the model's range)
Float(n, d) ==
    IF -FloatCap < n /\ n < FloatCap /\ d >= 1 /\ d < FloatCap
    THEN IntCap + (n + FloatCap) * FloatCap + d
    ELSE IntCap
\* a / b for ints a, b with b # 0
TrueDiv(a, b) ==
    LET g == Gcd(Abs(a), Abs(b))
        s == IF b < 0 THEN -1 ELSE 1
    IN  Float((s * a) \div g, Abs(b) \div g)
\* x - 1 for a float x (the float is named by the exact difference)
FloatDec(v) == Float(FloatNum(v) - FloatDen(v), FloatDen(v))

\* Python's list indexing, list[k] with len(list) = n: the exception it raises ...
IndexExc(k, n) ==
    IF IsFloat(k) THEN "TypeError"
    ELSE IF k < -n \/ k >= n THEN "IndexError"
    ELSE "None"
\* ... and the cell it names otherwise.
ListIndex(k, n) == IF k < 0 THEN k + n ELSE k

\* ------------------------------------------------------------ the machine
\* A machine m is the CPU object as a record: its fields pc, fl, ie, halted, ram, reg,
\* inst_set_pc; out, the console output of PRN and PRA; exc, the exception that ended
\* run; ret, the value the last called method returned; oob, set when a value left
\* the range of the model (no statement of the program reads it).
NoExc == [kind |-> "None", args |-> <<>>]
Ok(m) == m.exc.kind = "None"
Raise(m, kind) == [m EXCEPT !.exc = [kind |-> kind, args |-> <<>>]]
RaiseWith(m, kind, args) == [m EXCEPT !.exc = [kind |-> kind, args |-> args]]

\* F applied to the value of e: e is evaluated once, before F, as a statement is
\* before the statement that follows it.
Then(e, F(_)) == CHOOSE r \in {F(x) : x \in {e}} : TRUE

\* self.reg[r] = v, for an index r already known to be valid
SetReg(m, r, v) ==
    IF Fits(v) \/ (IsFloat(v) /\ FloatDen(v) >= 1)
    THEN [m EXCEPT !.reg[ListIndex(r, REG_COUNT)] = v]
    ELSE [m EXCEPT !.oob = TRUE]

ram_write(m, mdr, mar) ==
    IF ~Ok(m) THEN m
    ELSE IF IndexExc(mar, RAM_SIZE) # "None" THEN Raise(m, IndexExc(mar, RAM_SIZE))
    ELSE [m EXCEPT !.ram[ListIndex(mar, RAM_SIZE)] = mdr]

ram_read(m, mar) ==
    IF ~Ok(m) THEN m
    ELSE IF IndexExc(mar, RAM_SIZE) # "None" THEN Raise(m, IndexExc(mar, RAM_SIZE))
    ELSE [m EXCEPT !.ret = m.ram[ListIndex(mar, RAM_SIZE)]]

\* self.reg[SP] -= 1, on an int or a float
DecSP(m) ==
    IF IsFloat(m.reg[SP]) THEN SetReg(m, SP, FloatDec(m.reg[SP]))
    ELSE SetReg(m, SP, m.reg[SP] - 1)

\* push_value writing at SP before it decrements SP
push_value_write_first(m, value) ==
    IF ~Ok(m) THEN m
    ELSE Then(ram_write(m, value, m.reg[SP]), LAMBDA m1 : IF Ok(m1) THEN DecSP(m1) ELSE m1)

push_value(m, value) ==
    IF ~Ok(m) THEN m
    ELSE Then(DecSP(m), LAMBDA m1 : ram_write(m1, value, m1.reg[SP]))

pop_value(m) ==
    IF ~Ok(m) THEN m
    ELSE Then(ram_read(m, m.reg[SP]),
              LAMBDA m1 : IF ~Ok(m1) THEN m1 ELSE SetReg(m1, SP, m1.reg[SP] + 1))

\* ------------------------------------------------------ interrupt controller
\* check_timer_interrupt raising the keyboard line
check_timer_interrupt_keyboard(m, fire) ==
    IF ~fire THEN [m EXCEPT !.last_interrupt = "set"]
    ELSE IF IsFloat(m.reg[IS]) THEN Raise([m EXCEPT !.last_interrupt = "set"], "TypeError")
    ELSE SetReg([m EXCEPT !.last_interrupt = "set"], IS, BitOr(m.reg[IS], IS_KEYBOARD))

\* check_timer_interrupt: fire is the outcome of the test difference.seconds >= 1 on the
\* wall clock, which the program does not control.
check_timer_interrupt(m, fire) ==
    LET m1 == [m EXCEPT !.last_interrupt = "set"]
    IN  IF ~fire THEN m1
        ELSE IF IsFloat(m1.reg[IS]) THEN Raise(m1, "TypeError")
        ELSE SetReg(m1, IS, BitOr(m1.reg[IS], IS_TIMER))

\* The pushes of a dispatch, in order: each push_value call of lines 148-151.
RECURSIVE PushAll(_, _)
PushAll(m, values) ==
    IF values = <<>> THEN m
    ELSE Then(push_value(m, Head(values)), LAMBDA m1 : PushAll(m1, Tail(values)))

\* ServiceInterrupt saving FL before PC
ServiceInterrupt_fl_first(m, i) ==
    Then([m EXCEPT !.ie = 0], LAMBDA m1 :
    Then(SetReg(m1, IS, BitAnd(m1.reg[IS], BitNot(Pow2(i)))), LAMBDA m2 :
    Then(PushAll(m2, <<m2.fl, m2.pc>> \o [r \in 1..7 |-> m2.reg[r - 1]]), LAMBDA m3 :
    Then(ram_read(m3, VECTORS + i), LAMBDA m4 :
    IF ~Ok(m4) THEN m4 ELSE [m4 EXCEPT !.pc = m4.ret]))))

\* ServiceInterrupt reading the first cell of the vector table whatever the line
ServiceInterrupt_first_vector(m, i) ==
    Then([m EXCEPT !.ie = 0], LAMBDA m1 :
    Then(SetReg(m1, IS, BitAnd(m1.reg[IS], BitNot(Pow2(i)))), LAMBDA m2 :
    Then(PushAll(m2, <<m2.pc, m2.fl>> \o [r \in 1..7 |-> m2.reg[r - 1]]), LAMBDA m3 :
    Then(ram_read(m3, VECTORS), LAMBDA m4 :
    IF ~Ok(m4) THEN m4 ELSE [m4 EXCEPT !.pc = m4.ret]))))

\* The body of the if of handle_interrupts, for the interrupt line i.
ServiceInterrupt(m, i) ==
    Then([m EXCEPT !.ie = 0], LAMBDA m1 :
    Then(SetReg(m1, IS, BitAnd(m1.reg[IS], BitNot(Pow2(i)))), LAMBDA m2 :
    Then(PushAll(m2, <<m2.pc, m2.fl>> \o [r \in 1..7 |-> m2.reg[r - 1]]), LAMBDA m3 :
    Then(ram_read(m3, VECTORS + i), LAMBDA m4 :
    IF ~Ok(m4) THEN m4 ELSE [m4 EXCEPT !.pc = m4.ret]))))

\* The scan without its break: every line whose bit is set in masked is serviced.
RECURSIVE ScanInterrupts_no_break(_, _, _)
ScanInterrupts_no_break(m, masked, i) ==
    IF i >= 8 \/ ~Ok(m) THEN m
    ELSE IF BitAnd(masked, Pow2(i)) # 0
    THEN Then(ServiceInterrupt(m, i), LAMBDA m1 : ScanInterrupts_no_break(m1, masked, i + 1))
    ELSE ScanInterrupts_no_break(m, masked, i + 1)

\* for i in range(8), from i on: the first line whose bit is set in masked is serviced.
RECURSIVE ScanInterrupts(_, _, _)
ScanInterrupts(m, masked, i) ==
    IF i >= 8 THEN m
    ELSE IF BitAnd(masked, Pow2(i)) # 0 THEN ServiceInterrupt(m, i)
    ELSE ScanInterrupts(m, masked, i + 1)

\* handle_interrupts without the test of IE
handle_interrupts_ignore_ie(m) ==
    IF IsFloat(m.reg[IM]) \/ IsFloat(m.reg[IS]) THEN Raise(m, "TypeError")
    ELSE ScanInterrupts(m, BitAnd(m.reg[IM], m.reg[IS]), 0)

\* handle_interrupts scanning IS without the mask IM
handle_interrupts_unmasked(m) ==
    IF m.ie = 0 THEN m
    ELSE IF IsFloat(m.reg[IM]) \/ IsFloat(m.reg[IS]) THEN Raise(m, "TypeError")
    ELSE ScanInterrupts(m, m.reg[IS], 0)

handle_interrupts(m) ==
    IF m.ie = 0 THEN m
    ELSE IF IsFloat(m.reg[IM]) \/ IsFloat(m.reg[IS]) THEN Raise(m, "TypeError")
    ELSE ScanInterrupts(m, BitAnd(m.reg[IM], m.reg[IS]), 0)

\* -------------------------------------------------------------------- ALU
\* x << n on Python ints with n >= 0; a result beyond the model's range is reported
\* as IntCap, which SetReg refuses.
ShiftLeft(x, n) ==
    IF x = 0 THEN 0
    ELSE IF n >= 18 THEN IntCap
    ELSE IF Pow2(n) > IntCap \div Abs(x) THEN IntCap
    ELSE x * Pow2(n)

\* x * y on Python ints, with the same convention
Times(x, y) ==
    IF x = 0 \/ y = 0 THEN 0
    ELSE IF Abs(y) > IntCap \div Abs(x) THEN IntCap
    ELSE x * y

\* The CMP branch without the clearing of the flags of the comparison before
CmpFlags_keep(fl, a, b) ==
    BitOr(fl, IF a < b THEN FL_LT ELSE IF a > b THEN FL_GT ELSE FL_EQ)

\* The CMP branch of alu: FL after comparing a with b.
CmpFlags(fl, a, b) ==
    BitOr(BitAnd(fl, CMP_CLEAR_MASK),
          IF a < b THEN FL_LT ELSE IF a > b THEN FL_GT ELSE FL_EQ)

\* alu runs after trace has formatted every register with %02X, so the registers are
\* ints here.  reg_b is None (not indexed) for DEC and INC.
alu(m, op, reg_a, reg_b) ==
    LET unary == op \in {"DEC", "INC"}
        bad == IF IndexExc(reg_a, REG_COUNT) # "None" THEN IndexExc(reg_a, REG_COUNT)
               ELSE IF unary THEN "None"
               ELSE IndexExc(reg_b, REG_COUNT)
        a == m.reg[ListIndex(reg_a, REG_COUNT)]
        b == IF unary THEN 0 ELSE m.reg[ListIndex(reg_b, REG_COUNT)]
    IN  IF ~Ok(m) THEN m
        ELSE IF op \notin {"ADD", "AND", "SUB", "MUL", "DIV", "DEC", "INC", "CMP", "OR",
                           "SHL", "XOR"}
        THEN RaiseWith(m, "Exception", <<"Unsupported ALU operation">>)
        ELSE IF bad # "None" THEN Raise(m, bad)
        ELSE CASE op = "ADD" -> SetReg(m, reg_a, a + b)
               [] op = "AND" -> SetReg(m, reg_a, BitAnd(a, b))
               [] op = "SUB" -> SetReg(m, reg_a, a - b)
               [] op = "MUL" -> SetReg(m, reg_a, Times(a, b))
               [] op = "DIV" -> IF b = 0 THEN Raise(m, "ZeroDivisionError")
                                ELSE SetReg(m, reg_a, TrueDiv(a, b))
               [] op = "DEC" -> SetReg(m, reg_a, a - 1)
               [] op = "INC" -> SetReg(m, reg_a, a + 1)
               [] op = "CMP" ->
                    IF Fits(CmpFlags(m.fl, a, b))
                    THEN [m EXCEPT !.fl = CmpFlags(m.fl, a, b)]
                    ELSE [m EXCEPT !.oob = TRUE]
               [] op = "OR"  -> SetReg(m, reg_a, BitOr(a, b))
               [] op = "SHL" -> IF b < 0 THEN Raise(m, "ValueError")
                                ELSE SetReg(m, reg_a, ShiftLeft(a, b))
               [] op = "XOR" -> SetReg(m, reg_a, BitXor(a, b))

\* --------------------------------------------------------------- handlers
RegExc(r) == IndexExc(r, REG_COUNT)
Reg(m, r) == m.reg[ListIndex(r, REG_COUNT)]
\* self.pc = v
SetPC(m, v) == [m EXCEPT !.pc = v]
\* print: one more value on the console
Emit(m, op, v) == [m EXCEPT !.out = Append(@, [op |-> op, val |-> v])]

op_ldi(m, operand_a, operand_b) ==
    IF RegExc(operand_a) # "None" THEN Raise(m, RegExc(operand_a))
    ELSE SetReg(m, operand_a, operand_b)

\* op_prn printing the other operand's register
op_prn_other(m, operand_a, operand_b) ==
    IF RegExc(operand_b) # "None" THEN Raise(m, RegExc(operand_b))
    ELSE Emit(m, "PRN", Reg(m, operand_b))

op_prn(m, operand_a, operand_b) ==
    IF RegExc(operand_a) # "None" THEN Raise(m, RegExc(operand_a))
    ELSE Emit(m, "PRN", Reg(m, operand_a))

\* chr(v) raises ValueError unless 0 <= v < 0x110000
op_pra(m, operand_a, operand_b) ==
    IF RegExc(operand_a) # "None" THEN Raise(m, RegExc(operand_a))
    ELSE IF Reg(m, operand_a) < 0 THEN Raise(m, "ValueError")
    ELSE Emit(m, "PRA", Reg(m, operand_a))

op_add(m, operand_a, operand_b) == alu(m, "ADD", operand_a, operand_b)
op_and(m, operand_a, operand_b) == alu(m, "AND", operand_a, operand_b)
op_sub(m, operand_a, operand_b) == alu(m, "SUB", operand_a, operand_b)
op_mul(m, operand_a, operand_b) == alu(m, "MUL", operand_a, operand_b)
\* op_div giving 0 for a zero divisor
op_div_zero_quotient(m, operand_a, operand_b) ==
    IF RegExc(operand_a) = "None" /\ RegExc(operand_b) = "None" /\ Reg(m, operand_b) = 0
    THEN SetReg(m, operand_a, 0)
    ELSE alu(m, "DIV", operand_a, operand_b)

op_div(m, operand_a, operand_b) == alu(m, "DIV", operand_a, operand_b)
op_dec(m, operand_a, operand_b) == alu(m, "DEC", operand_a, 0)
op_inc(m, operand_a, operand_b) == alu(m, "INC", operand_a, 0)
op_or(m, operand_a, operand_b)  == alu(m, "OR", operand_a, operand_b)
op_xor(m, operand_a, operand_b) == alu(m, "XOR", operand_a, operand_b)
op_shl(m, operand_a, operand_b) == alu(m, "SHL", operand_a, operand_b)
op_cmp(m, operand_a, operand_b) == alu(m, "CMP", operand_a, operand_b)

\* The right-hand side, pop_value(), is evaluated before reg[operand_a] is indexed.
op_pop(m, operand_a, operand_b) ==
    Then(pop_value(m), LAMBDA m1 :
        IF ~Ok(m1) THEN m1
        ELSE IF RegExc(operand_a) # "None" THEN Raise(m1, RegExc(operand_a))
        ELSE SetReg(m1, operand_a, m1.ret))

op_push(m, operand_a, operand_b) ==
    IF RegExc(operand_a) # "None" THEN Raise(m, RegExc(operand_a))
    ELSE push_value(m, Reg(m, operand_a))

\* op_call saving the address of the CALL itself
op_call_push_pc(m, operand_a, operand_b) ==
    Then(push_value(m, m.pc), LAMBDA m1 :
        IF ~Ok(m1) THEN m1
        ELSE IF RegExc(operand_a) # "None" THEN Raise(m1, RegExc(operand_a))
        ELSE SetPC(m1, Reg(m1, operand_a)))

op_call(m, operand_a, operand_b) ==
    Then(push_value(m, m.pc + 2), LAMBDA m1 :
        IF ~Ok(m1) THEN m1
        ELSE IF RegExc(operand_a) # "None" THEN Raise(m1, RegExc(operand_a))
        ELSE SetPC(m1, Reg(m1, operand_a)))

op_ret(m, operand_a, operand_b) ==
    Then(pop_value(m), LAMBDA m1 : IF ~Ok(m1) THEN m1 ELSE SetPC(m1, m1.ret))

op_ld(m, operand_a, operand_b) ==
    IF RegExc(operand_b) # "None" THEN Raise(m, RegExc(operand_b))
    ELSE Then(ram_read(m, Reg(m, operand_b)), LAMBDA m1 :
             IF ~Ok(m1) THEN m1
             ELSE IF RegExc(operand_a) # "None" THEN Raise(m1, RegExc(operand_a))
             ELSE SetReg(m1, operand_a, m1.ret))

op_st(m, operand_a, operand_b) ==
    IF RegExc(operand_b) # "None" THEN Raise(m, RegExc(operand_b))
    ELSE IF RegExc(operand_a) # "None" THEN Raise(m, RegExc(operand_a))
    ELSE ram_write(m, Reg(m, operand_b), Reg(m, operand_a))

op_jmp(m, operand_a, operand_b) ==
    IF RegExc(operand_a) # "None" THEN Raise(m, RegExc(operand_a))
    ELSE SetPC(m, Reg(m, operand_a))

\* A conditional jump that declines without clearing inst_set_pc
JumpIf_keep_flag(m, taken, operand_a) ==
    IF taken THEN op_jmp(m, operand_a, 0) ELSE m

\* The shape shared by op_jeq, op_jle, op_jlt and op_jne: jump when taken, else
\* clear inst_set_pc so that run advances PC.
JumpIf(m, taken, operand_a) ==
    IF taken THEN op_jmp(m, operand_a, 0)
    ELSE [m EXCEPT !.inst_set_pc = FALSE]

op_jeq(m, operand_a, operand_b) ==
    JumpIf(m, BitAnd(m.fl, FL_EQ) # 0, operand_a)

op_jle(m, operand_a, operand_b) ==
    JumpIf(m, BitAnd(m.fl, FL_LT) # 0 \/ BitAnd(m.fl, FL_EQ) # 0, operand_a)

op_jlt(m, operand_a, operand_b) ==
    JumpIf(m, BitAnd(m.fl, FL_LT) # 0, operand_a)

op_jne(m, operand_a, operand_b) ==
    JumpIf(m, BitAnd(m.fl, FL_EQ) = 0, operand_a)

\* for i in range(6, -1, -1): self.reg[i] = self.pop_value(), from register i down
RECURSIVE PopRegisters(_, _)
PopRegisters(m, i) ==
    IF i < 0 \/ ~Ok(m) THEN m
    ELSE Then(pop_value(m), LAMBDA m1 :
             IF ~Ok(m1) THEN m1
             ELSE Then(SetReg(m1, i, m1.ret), LAMBDA m2 : PopRegisters(m2, i - 1)))

\* op_iret dropping the saved register 6 instead of restoring it
op_iret_keep_is(m, operand_a, operand_b) ==
    Then(pop_value(m), LAMBDA m0 :
    Then(PopRegisters(m0, 5), LAMBDA m1 :
    Then(pop_value(m1), LAMBDA m2 :
    Then(IF Ok(m2) THEN [m2 EXCEPT !.fl = m2.ret] ELSE m2, LAMBDA m3 :
    Then(pop_value(m3), LAMBDA m4 :
    Then(IF Ok(m4) THEN SetPC(m4, m4.ret) ELSE m4, LAMBDA m5 :
    IF Ok(m5) THEN [m5 EXCEPT !.ie = 1] ELSE m5))))))

\* op_iret popping PC before FL
op_iret_pc_first(m, operand_a, operand_b) ==
    Then(PopRegisters(m, 6), LAMBDA m1 :
    Then(pop_value(m1), LAMBDA m2 :
    Then(IF Ok(m2) THEN SetPC(m2, m2.ret) ELSE m2, LAMBDA m3 :
    Then(pop_value(m3), LAMBDA m4 :
    Then(IF Ok(m4) THEN [m4 EXCEPT !.fl = m4.ret] ELSE m4, LAMBDA m5 :
    IF Ok(m5) THEN [m5 EXCEPT !.ie = 1] ELSE m5)))))

op_iret(m, operand_a, operand_b) ==
    Then(PopRegisters(m, 6), LAMBDA m1 :
    Then(pop_value(m1), LAMBDA m2 :
    Then(IF Ok(m2) THEN [m2 EXCEPT !.fl = m2.ret] ELSE m2, LAMBDA m3 :
    Then(pop_value(m3), LAMBDA m4 :
    Then(IF Ok(m4) THEN SetPC(m4, m4.ret) ELSE m4, LAMBDA m5 :
    IF Ok(m5) THEN [m5 EXCEPT !.ie = 1] ELSE m5)))))

op_hlt(m, operand_a, operand_b) == [m EXCEPT !.halted = TRUE]

\* The keys of self.branch_table
branch_table ==
    {ADD, AND, CALL, CMP, DEC, DIV, HLT, INC, IRET, JEQ, JLE, JLT, JMP, JNE, LD, LDI, MUL,
     OR, POP, PRA, PRN, PUSH, RET, SHL, ST, SUB, XOR}

\* self.branch_table[ir](operand_a, operand_b), for ir in branch_table
Dispatch(m, ir, a, b) ==
    CASE ir = ADD  -> op_add(m, a, b)
      [] ir = AND  -> op_and(m, a, b)
      [] ir = CALL -> op_call(m, a, b)
      [] ir = CMP  -> op_cmp(m, a, b)
      [] ir = DEC  -> op_dec(m, a, b)
      [] ir = DIV  -> op_div(m, a, b)
      [] ir = HLT  -> op_hlt(m, a, b)
      [] ir = INC  -> op_inc(m, a, b)
      [] ir = IRET -> op_iret(m, a, b)
      [] ir = JEQ  -> op_jeq(m, a, b)
      [] ir = JLE  -> op_jle(m, a, b)
      [] ir = JLT  -> op_jlt(m, a, b)
      [] ir = JMP  -> op_jmp(m, a, b)
      [] ir = JNE  -> op_jne(m, a, b)
      [] ir = LD   -> op_ld(m, a, b)
      [] ir = LDI  -> op_ldi(m, a, b)
      [] ir = MUL  -> op_mul(m, a, b)
      [] ir = OR   -> op_or(m, a, b)
      [] ir = POP  -> op_pop(m, a, b)
      [] ir = PRA  -> op_pra(m, a, b)
      [] ir = PRN  -> op_prn(m, a, b)
      [] ir = PUSH -> op_push(m, a, b)
      [] ir = RET  -> op_ret(m, a, b)
      [] ir = SHL  -> op_shl(m, a, b)
      [] ir = ST   -> op_st(m, a, b)
      [] ir = SUB  -> op_sub(m, a, b)
      [] ir = XOR  -> op_xor(m, a, b)

\* -------------------------------------------------------------------- run
\* trace formats PC, IR, FL, the three fetched bytes and every register with %02X, which
\* raises TypeError on a float.  What it prints is diagnostic and is not kept in out.
trace(m, ir, operand_a, operand_b) ==
    IF \/ IsFloat(m.pc) \/ IsFloat(ir) \/ IsFloat(m.fl)
       \/ IsFloat(operand_a) \/ IsFloat(operand_b)
       \/ \E r \in 0..(REG_COUNT - 1) : IsFloat(m.reg[r])
    THEN Raise(m, "TypeError")
    ELSE m

\* execute advancing PC whatever inst_set_pc says
execute_always_advance(m) ==
    Then(ram_read(m, m.pc), LAMBDA f0 :
    Then(ram_read(f0, m.pc + 1), LAMBDA f1 :
    Then(ram_read(f1, m.pc + 2), LAMBDA f2 :
    Then(f0.ret, LAMBDA ir :
        IF ~Ok(f2) THEN f2
        ELSE IF IsFloat(ir) THEN Raise(m, "TypeError")
        ELSE
    Then([m EXCEPT !.inst_set_pc = ((ir \div 16) % 2 = 1)], LAMBDA d :
    Then(trace(d, ir, f1.ret, f2.ret), LAMBDA t :
    Then(IF ~Ok(t) THEN t
         ELSE IF ir \in branch_table THEN Dispatch(t, ir, f1.ret, f2.ret)
         ELSE RaiseWith(t, "Exception", <<ir, t.pc>>), LAMBDA x :
        IF Ok(x) THEN SetPC(x, x.pc + ((ir \div 64) % 4) + 1) ELSE x)))))))

\* execute reading only the operand bytes the width of the instruction covers
execute_fetch_by_width(m) ==
    Then(ram_read(m, m.pc), LAMBDA f0 :
    Then(f0.ret, LAMBDA ir :
        IF ~Ok(f0) THEN f0
        ELSE IF IsFloat(ir) THEN Raise(m, "TypeError")
        ELSE
    Then(((ir \div 64) % 4) + 1, LAMBDA inst_size :
    Then(IF inst_size >= 2 THEN ram_read(m, m.pc + 1) ELSE [m EXCEPT !.ret = 0], LAMBDA f1 :
    Then(IF Ok(f1) /\ inst_size >= 3 THEN ram_read(f1, m.pc + 2)
         ELSE [f1 EXCEPT !.ret = 0], LAMBDA f2 :
        IF ~Ok(f2) THEN f2
        ELSE
    Then([m EXCEPT !.inst_set_pc = ((ir \div 16) % 2 = 1)], LAMBDA d :
    Then(trace(d, ir, f1.ret, f2.ret), LAMBDA t :
    Then(IF ~Ok(t) THEN t
         ELSE IF ir \in branch_table THEN Dispatch(t, ir, f1.ret, f2.ret)
         ELSE RaiseWith(t, "Exception", <<ir, t.pc>>), LAMBDA x :
        IF Ok(x) /\ ~x.inst_set_pc THEN SetPC(x, x.pc + inst_size) ELSE x))))))))

\* execute passing over a byte that is no key of branch_table
execute_skip_unknown(m) ==
    Then(ram_read(m, m.pc), LAMBDA f0 :
    Then(ram_read(f0, m.pc + 1), LAMBDA f1 :
    Then(ram_read(f1, m.pc + 2), LAMBDA f2 :
    Then(f0.ret, LAMBDA ir :
        IF ~Ok(f2) THEN f2
        ELSE IF IsFloat(ir) THEN Raise(m, "TypeError")
        ELSE
    Then([m EXCEPT !.inst_set_pc = ((ir \div 16) % 2 = 1)], LAMBDA d :
    Then(trace(d, ir, f1.ret, f2.ret), LAMBDA t :
    Then(IF ~Ok(t) THEN t
         ELSE IF ir \in branch_table THEN Dispatch(t, ir, f1.ret, f2.ret)
         ELSE t, LAMBDA x :
        IF Ok(x) /\ ~x.inst_set_pc THEN SetPC(x, x.pc + ((ir \div 64) % 4) + 1) ELSE x)))))))

\* One pass of the body of the while loop of run after the two interrupt calls:
\* fetch, decode, trace, dispatch, advance.
execute(m) ==
    Then(ram_read(m, m.pc), LAMBDA f0 :
    Then(ram_read(f0, m.pc + 1), LAMBDA f1 :
    Then(ram_read(f1, m.pc + 2), LAMBDA f2 :
    Then(f0.ret, LAMBDA ir :
    Then(f1.ret, LAMBDA operand_a :
    Then(f2.ret, LAMBDA operand_b :
        IF ~Ok(f2) THEN f2
        ELSE IF IsFloat(ir) THEN Raise(m, "TypeError")
        ELSE
    Then(((ir \div 64) % 4) + 1, LAMBDA inst_size :
    Then([m EXCEPT !.inst_set_pc = ((ir \div 16) % 2 = 1)], LAMBDA d :
    Then(trace(d, ir, operand_a, operand_b), LAMBDA t :
    Then(IF ~Ok(t) THEN t
         ELSE IF ir \in branch_table THEN Dispatch(t, ir, operand_a, operand_b)
         ELSE RaiseWith(t, "Exception", <<ir, t.pc>>), LAMBDA x :
        IF Ok(x) /\ ~x.inst_set_pc THEN SetPC(x, x.pc + inst_size) ELSE x))))))))))

\* ret is a temporary of the call that set it
Returned(m) == [m EXCEPT !.ret = 0]

\* load: the values of the program file, in file order from address 0
load(program) ==
    [a \in 0..(RAM_SIZE - 1) |-> IF a < Len(program) THEN program[a + 1] ELSE 0]

\* CPU.__init__ followed by load(program)
NewCPU(program) ==
    [pc |-> 0, fl |-> 0, ie |-> 1, halted |-> FALSE, last_interrupt |-> "None",
     ir_has_set_pc |-> FALSE, inst_set_pc |-> FALSE,
     ram |-> load(program),
     reg |-> [r \in 0..(REG_COUNT - 1) |-> IF r = SP THEN SP_INIT ELSE 0],
     out |-> <<>>, exc |-> NoExc, ret |-> 0, oob |-> FALSE]

\* --------------------------------------------------------------- programs
\* Program files, as the sequence of values of their lines.
\* The file of RAM_SIZE lines holding each segment <<addr, code>> of segs at its
\* address (a later segment over an earlier one) and 0 elsewhere.
Image(segs) ==
    [i \in 1..RAM_SIZE |->
        LET hits == {k \in 1..Len(segs) :
                        i - 1 >= segs[k][1] /\ i - 1 < segs[k][1] + Len(segs[k][2])}
            last == CHOOSE k \in hits : \A j \in hits : j <= k
        IN  IF hits = {} THEN 0 ELSE segs[last][2][i - segs[last][1]]]

\* The scenario of the specification: prints 17 and halts.
Print17 == <<LDI, 0, 8, LDI, 1, 9, ADD, 0, 1, PRN, 0, HLT>>

\* PUSH Ra then POP Rb on a stack at sp.
StackPrograms ==
    { <<LDI, SP, sp, LDI, a, x, PUSH, a, POP, b, HLT>> :
        sp \in {SP_INIT, 0, 1, 9, 10, 255}, a \in {0, 6}, b \in {0, 1, 6}, x \in {42, 1} }

\* Two pushes, two pops.
StackPrograms2 ==
    { <<LDI, SP, sp, LDI, 0, x, LDI, 1, y, PUSH, 0, PUSH, 1, POP, 2, POP, 3, HLT>> :
        sp \in {SP_INIT, 0, 1}, x \in {42, 255}, y \in {0, 7} }

\* A stack pointer beyond the last cell: n increments of 255.
StackProgramsHigh ==
    { <<LDI, SP, 255, INC, SP>> \o incs \o <<PUSH, 0, POP, 1, HLT>> :
        incs \in {<<>>, <<INC, SP>>} }

\* Where the handler of interrupt line i is placed, and the vector table naming it.
HandlerAt(i) == 32 + 8 * i
VectorTable == [i \in 1..8 |-> HandlerAt(i - 1)]
HandlerCode(kind) ==
    CASE kind = "plain" -> <<INC, 1, IRET>>
      [] kind = "mask"  -> <<LDI, IM, 0, IRET>>
      [] kind = "leak"  -> <<PUSH, 0, IRET>>
      [] kind = "halt"  -> <<HLT>>

Handlers(kind) == [i \in 1..8 |-> <<HandlerAt(i - 1), HandlerCode(kind)>>]

\* Sets SP, IM and IS (raising interrupt lines by software), then works and halts; the
\* timer may raise line 0 at any cycle.
InterruptPrograms ==
    { Image(<<<<0, <<LDI, SP, sp, LDI, IM, im, LDI, IS, is, INC, 0, HLT>>>>>>
            \o Handlers(kind) \o <<<<VECTORS, VectorTable>>>>) :
        sp \in {SP_INIT, 0, 255}, im \in {0, 1, 3, 255}, is \in {0, 2, 3, 132},
        kind \in {"plain", "mask", "leak", "halt"} }

\* Loads R0, R1 and FL from a prepared frame with IRET, compares and jumps.
CompareFrame(x, y, f) == <<0, 0, 0, 0, 0, y, x, f, 4>>
ComparePrograms ==
    { <<LDI, SP, 16, IRET, CMP, 0, 1, LDI, 2, 15, jcc, 2, PRN, 0, HLT, HLT>>
        \o CompareFrame(x, y, f) :
        x \in {0, 1, 255}, y \in {0, 1, 255}, f \in {0, 7}, jcc \in {JEQ, JNE, JLT, JLE} }

AluPrograms ==
    { <<LDI, 0, x, LDI, 1, y, op, 0, 1, PRN, 0, HLT>> :
        x \in {0, 1, 3, 255}, y \in {0, 1, 3, 255},
        op \in {ADD, SUB, MUL, DIV, AND, OR, XOR, SHL} }
    \cup
    { <<LDI, 0, x, op, 0, PRN, 0, HLT>> : x \in {0, 1, 255}, op \in {INC, DEC} }

\* CALL a subroutine that returns, or that leaves a value on the stack before RET.
CallPrograms ==
    { <<LDI, SP, sp, LDI, 1, 16, CALL, 1, PRN, 0, HLT>> \o <<0, 0, 0, 0, 0>> \o sub :
        sp \in {SP_INIT, 0},
        sub \in {<<INC, 0, RET>>, <<PUSH, 1, RET>>, <<LDI, 0, 5, PUSH, 0, POP, 2, RET>>} }

MemoryPrograms ==
    { <<LDI, 0, addr, LDI, 1, 65, ST, 0, 1, LD, 2, 0, PRA, 2, HLT>> :
        addr \in {100, 255, 14} }

\* An opcode that is no key of branch_table, or a register number that is no index.
FaultPrograms ==
    { <<LDI, 0, 5, bad, HLT>> : bad \in {0, 255, 129} }
    \cup { <<LDI, r, 1, HLT>> : r \in {7, 8} }

\* Jumps to the top of memory, where HLT fills the last cells.
TopPrograms ==
    { Image(<<<<0, <<LDI, 0, t, JMP, 0>>>>, <<252, <<HLT, HLT, HLT, HLT>>>>>>) :
        t \in {252, 253, 254, 255} }

\* Loads FL from a prepared frame with IRET and jumps on it, without a CMP.
JumpPrograms ==
    { <<LDI, SP, 16, IRET, HLT, HLT, HLT, LDI, 2, 15, jcc, 2, PRN, 0, HLT, HLT>>
        \o <<0, 0, 0, 0, 0, 0, 0, f, 7>> :
        f \in 0..7, jcc \in {JEQ, JNE, JLT, JLE} }

\* Jumps to t near the top of memory, which holds zeros: 0 is no opcode.
TopFaultPrograms ==
    { <<LDI, 0, t, JMP, 0>> : t \in {250, 253, 254, 255} }

\* A byte that is no opcode after a division has left a float in R0.
FloatFaultPrograms ==
    { <<LDI, 0, 1, LDI, 1, 2, DIV, 0, 1, bad>> : bad \in {0, 255} }

\* Enables the timer interrupt and jumps to t near the top of memory; the vector table
\* fills the cells from 0xF8 up.
TopInterruptPrograms ==
    { Image(<<<<0, <<LDI, IM, 1, LDI, 0, t, JMP, 0>>>>>>
            \o Handlers("plain") \o <<<<VECTORS, VectorTable>>>>) :
        t \in {253, 254, 255} }

\* CALL through the stack pointer itself, or through a register that is no index.
CallSpPrograms ==
    { <<LDI, SP, 20, LDI, 1, 16, CALL, r, HLT>> : r \in {SP, 8} }

Programs ==
    {Print17} \cup StackPrograms \cup StackPrograms2 \cup StackProgramsHigh
    \cup InterruptPrograms \cup ComparePrograms \cup AluPrograms \cup CallPrograms
    \cup MemoryPrograms \cup FaultPrograms \cup TopPrograms
    \cup JumpPrograms \cup TopFaultPrograms \cup FloatFaultPrograms
    \cup TopInterruptPrograms \cup CallSpPrograms

\* ------------------------------------------------------------ specification
\* cpu    the CPU object
\* phase  where run stands in the body of its while loop: "timer" (the loop test and
\*        check_timer_interrupt come next), "interrupts" (handle_interrupts comes next),
\*        "execute" (the fetch comes next)
\* cycles the number of passes of the loop begun
\* History, read by the properties only:
\* step   the call made last ("none" before the first), and prev, the CPU object as
\*        that call found it
\* irq    the interrupt dispatched last: its line, the CPU object before and after that
\*        call of handle_interrupts; active, from the dispatch until an IRET completes;
\*        returned, when the instruction executed last is the IRET that ended it;
\*        nested, when it was dispatched while another was active
\* cyc    the pass of the loop under way: start, the CPU object at the loop test, and
\*        fired, whether the timer test of check_timer_interrupt held in it
\* hist   the instructions completed so far: opcode, operands, address, SP before, and
\*        val, the value a PUSH wrote or a POP loaded into its register (0 otherwise)
VARIABLES cpu, phase, cycles, step, prev, irq, cyc, hist
vars == <<cpu, phase, cycles, step, prev, irq, cyc, hist>>

Init ==
    /\ cpu \in {NewCPU(p) : p \in Programs}
    /\ phase = "timer"
    /\ cycles = 0
    /\ step = "none"
    /\ prev = cpu
    /\ irq = [active |-> FALSE, returned |-> FALSE, nested |-> FALSE, line |-> -1,
              before |-> cpu, after |-> cpu]
    /\ cyc = [start |-> cpu, fired |-> FALSE]
    /\ hist = <<>>

\* The loop test without the test of halted
Running_ignore_halted == Ok(cpu)

\* while not self.halted, in a run no exception has ended
Running == ~cpu.halted /\ Ok(cpu)

\* The line a call of handle_interrupts on m services: the lowest of 0..7 whose bit is
\* set in IM & IS, or -1.
PendingLine(m) ==
    LET lines == {i \in 0..7 : BitAnd(BitAnd(m.reg[IM], m.reg[IS]), Pow2(i)) # 0}
    IN  IF m.ie = 0 \/ IsFloat(m.reg[IM]) \/ IsFloat(m.reg[IS]) \/ lines = {} THEN -1
        ELSE CHOOSE i \in lines : \A j \in lines : i <= j

\* while not self.halted: self.check_timer_interrupt()
Run_check_timer_interrupt ==
    /\ phase = "timer"
    /\ Running
    /\ cycles < MaxCycles
    /\ \E fire \in BOOLEAN :
          \E m \in {Returned(check_timer_interrupt(cpu, fire))} :
              /\ ~m.oob
              /\ cpu' = m
              /\ phase' = IF Ok(m) THEN "interrupts" ELSE phase
              /\ cyc' = [start |-> cpu, fired |-> fire]
    /\ cycles' = cycles + 1
    /\ step' = "timer"
    /\ prev' = cpu
    /\ UNCHANGED <<irq, hist>>

\* self.handle_interrupts()
Run_handle_interrupts ==
    /\ phase = "interrupts"
    /\ Running
    /\ \E m \in {Returned(handle_interrupts(cpu))} :
           /\ ~m.oob
           /\ cpu' = m
           /\ phase' = IF Ok(m) THEN "execute" ELSE phase
           /\ irq' = IF m.reg # cpu.reg
                     THEN [active |-> TRUE, returned |-> FALSE, nested |-> irq.active,
                           line |-> PendingLine(cpu), before |-> cpu, after |-> m]
                     ELSE irq
    /\ step' = "interrupts"
    /\ prev' = cpu
    /\ UNCHANGED <<cycles, cyc, hist>>

\* The instruction at PC and its operand bytes, as the fetch of run reads them.
FetchedIr(m) == m.ram[ListIndex(m.pc, RAM_SIZE)]
FetchedA(m) == m.ram[ListIndex(m.pc + 1, RAM_SIZE)]
FetchedB(m) == m.ram[ListIndex(m.pc + 2, RAM_SIZE)]

\* The rest of the loop body: fetch, decode, trace, dispatch, advance.
Run_execute ==
    /\ phase = "execute"
    /\ Running
    /\ \E m \in {Returned(execute(cpu))} :
           /\ ~m.oob
           /\ cpu' = m
           /\ phase' = IF Ok(m) THEN "timer" ELSE phase
           /\ irq' = IF Ok(m)
                     THEN [irq EXCEPT !.active = (irq.active /\ FetchedIr(cpu) # IRET),
                                      !.returned = (irq.active /\ FetchedIr(cpu) = IRET)]
                     ELSE irq
           /\ hist' = IF Ok(m)
                      THEN Append(hist, [ir |-> FetchedIr(cpu), a |-> FetchedA(cpu),
                                         b |-> FetchedB(cpu), pc |-> cpu.pc,
                                         sp |-> cpu.reg[SP],
                                         val |-> IF FetchedIr(cpu) = PUSH
                                                 THEN Reg(cpu, FetchedA(cpu))
                                                 ELSE IF FetchedIr(cpu) = POP
                                                 THEN Reg(m, FetchedA(cpu))
                                                 ELSE 0])
                      ELSE hist
    /\ step' = "execute"
    /\ prev' = cpu
    /\ UNCHANGED <<cycles, cyc>>

Next == Run_check_timer_interrupt \/ Run_handle_interrupts \/ Run_execute

Spec == Init /\ [][Next]_vars

\* The loop of run goes on for as long as its test holds: nothing but an exception or
\* HLT stops it.
FairSpec == Spec /\ WF_vars(Next)

\* ------------------------------------------------------------- properties
\* The instruction executed last was op, and its handler and the advance completed.
Executed(op) == step = "execute" /\ Ok(cpu) /\ FetchedIr(prev) = op
\* Bit i of the Python int v
Bit(v, i) == BitAnd(v, Pow2(i)) # 0
BitClear(v, i) == BitAnd(v, BitNot(Pow2(i)))

\* The IRET executed last ended the interrupt irq, and the handler had left SP and the
\* nine cells of the frame as the dispatch left them.
FrameIntact ==
    /\ prev.reg[SP] = irq.after.reg[SP]
    /\ \A k \in 0..8 :
          prev.ram[ListIndex(prev.reg[SP] + k, RAM_SIZE)]
              = irq.after.ram[ListIndex(prev.reg[SP] + k, RAM_SIZE)]
IretReturned == Executed(IRET) /\ irq.returned /\ FrameIntact

\* C1 as stated: after such an IRET, PC, FL and each of the registers 0..6 have the
\* values they had immediately before handle_interrupts dispatched, and IE is 1.
C1_RestoresAllSeven ==
    IretReturned =>
        /\ cpu.pc = irq.before.pc
        /\ cpu.fl = irq.before.fl
        /\ \A r \in 0..6 : cpu.reg[r] = irq.before.reg[r]
        /\ cpu.ie = 1

\* C1, amended: after such an IRET, PC, FL and the registers 0..5 have the values they
\* had immediately before the dispatch, register 6 (IS) has its value before the
\* dispatch with the bit of the serviced line cleared, and IE is 1.
C1_RestoresFrame ==
    IretReturned =>
        /\ cpu.pc = irq.before.pc
        /\ cpu.fl = irq.before.fl
        /\ \A r \in 0..5 : cpu.reg[r] = irq.before.reg[r]
        /\ cpu.reg[IS] = BitClear(irq.before.reg[IS], irq.line)
        /\ cpu.ie = 1

\* An IRET has ended an interrupt whose handler had changed register 1.
C1_Witness == IretReturned /\ prev.reg[1] # irq.before.reg[1] /\ prev.ie = 0

\* The last 2n instructions were n PUSHes then n POPs, on registers 0..6.
PushesThenPops(n) ==
    /\ step = "execute"
    /\ Ok(cpu)
    /\ Len(hist) >= 2 * n
    /\ \A j \in 1..n :
          /\ hist[Len(hist) - 2 * n + j].ir = PUSH
          /\ hist[Len(hist) - 2 * n + j].a \in 0..6
          /\ hist[Len(hist) - n + j].ir = POP
          /\ hist[Len(hist) - n + j].a \in 0..6

InstSize(ir) == ((ir \div 64) % 4) + 1
SetsPC(ir) == (ir \div 16) % 2 = 1
\* Whether the conditional jump ir is taken under the flags fl.
Taken(ir, fl) ==
    CASE ir = JEQ -> BitAnd(fl, FL_EQ) # 0
      [] ir = JNE -> BitAnd(fl, FL_EQ) = 0
      [] ir = JLT -> BitAnd(fl, FL_LT) # 0
      [] ir = JLE -> BitAnd(fl, FL_LT) # 0 \/ BitAnd(fl, FL_EQ) # 0
      [] OTHER -> FALSE

\* C3: a completed cycle of an opcode whose bit 4 is clear (HLT included) leaves PC at
\* the PC of the fetch plus ((opcode >> 6) & 3) + 1; after CALL, JMP or a taken
\* conditional jump PC is the register the handler read, after RET and IRET it is the
\* value popped, with no increment added.
C3_Advance ==
    (step = "execute" /\ Ok(cpu)) =>
        LET ir == FetchedIr(prev) IN
        /\ ~SetsPC(ir) => cpu.pc = prev.pc + InstSize(ir)
        /\ (ir \in {CALL, JMP} \/ Taken(ir, prev.fl)) => cpu.pc = Reg(cpu, FetchedA(prev))
        /\ ir = RET => cpu.pc = prev.ram[ListIndex(prev.reg[SP], RAM_SIZE)]
        /\ ir = IRET => cpu.pc = prev.ram[ListIndex(prev.reg[SP] + 8, RAM_SIZE)]

\* HLT has executed: the machine is halted and PC stands one past the HLT.
C3_Witness == Executed(HLT) /\ cpu.halted /\ cpu.pc = prev.pc + 1

\* C4: after CMP Ra,Rb exactly one of LT, GT, EQ is set in FL, whatever FL held: LT if
\* reg[a] < reg[b], GT if reg[a] > reg[b], EQ otherwise.
C4_CmpOneFlag ==
    Executed(CMP) =>
        LET a == Reg(prev, FetchedA(prev))
            b == Reg(prev, FetchedB(prev))
        IN  BitAnd(cpu.fl, FL_LT + FL_GT + FL_EQ)
                = IF a < b THEN FL_LT ELSE IF a > b THEN FL_GT ELSE FL_EQ

\* CMP of 0 with 255 has executed on flags that had all three bits set.
C4_Witness ==
    /\ Executed(CMP)
    /\ prev.fl = FL_LT + FL_GT + FL_EQ
    /\ Reg(prev, FetchedA(prev)) = 0
    /\ Reg(prev, FetchedB(prev)) = 255
    /\ cpu.fl = FL_LT

\* The lines pending in IS that IM does not enable, when handle_interrupts is called on m.
MaskedLines(m) == {i \in 0..7 : Bit(m.reg[IS], i) /\ ~Bit(m.reg[IM], i)}
IntRegisters(m) == ~IsFloat(m.reg[IM]) /\ ~IsFloat(m.reg[IS])

\* C5: a line whose bit is set in IS and clear in IM is never dispatched:
\* handle_interrupts leaves its IS bit set; when no pending line is enabled it pushes
\* nothing and leaves PC (it changes nothing at all); and when it dispatches, PC is
\* loaded from the vector cell of a line that IM enables.
C5_MaskedNeverDispatched ==
    (step = "interrupts" /\ IntRegisters(prev)) =>
        /\ \A i \in MaskedLines(prev) : Bit(cpu.reg[IS], i)
        /\ BitAnd(BitAnd(prev.reg[IM], prev.reg[IS]), 255) = 0 => cpu = prev
        /\ (PendingLine(prev) # -1 /\ Ok(cpu)) =>
              /\ PendingLine(prev) \notin MaskedLines(prev)
              /\ cpu.pc = cpu.ram[VECTORS + PendingLine(prev)]

\* handle_interrupts has run with IE enabled and line 1 pending but masked: either it
\* dispatched nothing, or it dispatched line 0 and left line 1 pending.
C5_Witness ==
    /\ step = "interrupts"
    /\ prev.ie = 1
    /\ 1 \in MaskedLines(prev)
    /\ Bit(cpu.reg[IS], 1)
    /\ cpu.ie = 0

\* handle_interrupts has just dispatched a line (or raised while doing so).
Dispatched == step = "interrupts" /\ PendingLine(prev) # -1
\* The cells the nine pushes of a dispatch from m write.
FrameCells(m) == {ListIndex(m.reg[SP] - k, RAM_SIZE) : k \in 1..9}

\* C6 as stated: with IE enabled and i the lowest bit set in IM & IS, handle_interrupts
\* leaves PC equal to the value the cell 0xF8 + i held when the dispatch began, for
\* every reachable SP.
C6_VectorAsAtEntry ==
    Dispatched => cpu.pc = prev.ram[VECTORS + PendingLine(prev)]

\* C6, amended: when handle_interrupts returns from such a dispatch, PC is the value the
\* cell 0xF8 + i holds after the nine pushes of the frame; that is the value it held
\* when the dispatch began whenever none of the nine frame cells is 0xF8 + i.
C6_VectorAfterFrame ==
    (Dispatched /\ Ok(cpu)) =>
        /\ cpu.pc = cpu.ram[VECTORS + PendingLine(prev)]
        /\ (VECTORS + PendingLine(prev)) \notin FrameCells(prev)
              => cpu.pc = prev.ram[VECTORS + PendingLine(prev)]

\* Line 0 has been dispatched from the initial stack pointer: PC is the address stored
\* at 0xF8.
C6_Witness ==
    /\ Dispatched
    /\ Ok(cpu)
    /\ PendingLine(prev) = 0
    /\ prev.reg[SP] = SP_INIT
    /\ cpu.pc = prev.ram[VECTORS]
    /\ cpu.pc = HandlerAt(0)

\* The initial machine with the program of the scenario loaded.
Print17Loaded == cycles = 0 /\ cpu = NewCPU(Print17)
Printed17 == <<[op |-> "PRN", val |-> 17]>>

\* C7: from the initial machine with LDI R0,8; LDI R1,9; ADD R0,R1; PRN R0; HLT loaded,
\* run halts whatever the timer does, and what PRN and PRA emit is the single value 17.
C7_Prints17AndHalts ==
    Print17Loaded =>
        /\ [](cpu.out = <<>> \/ cpu.out = Printed17)
        /\ <>[](cpu.halted /\ Ok(cpu) /\ cpu.out = Printed17)

\* The scenario's program has halted after printing, with the timer interrupt raised on
\* the way.
C7_Witness ==
    /\ cpu.halted
    /\ cpu.ram = load(Print17)
    /\ cpu.out = Printed17
    /\ Bit(cpu.reg[IS], 0)

\* C8: with several lines enabled and pending, one call of handle_interrupts clears the
\* IS bit of the lowest one only, and pushes one frame: SP is lowered by exactly 9 and no
\* cell outside the nine of the frame changes.
C8_OneInterruptPerCall ==
    Dispatched =>
        /\ cpu.reg[IS] = BitClear(prev.reg[IS], PendingLine(prev))
        /\ \A j \in 0..(PendingLine(prev) - 1) :
               ~(Bit(prev.reg[IM], j) /\ Bit(prev.reg[IS], j))
        /\ Ok(cpu) =>
              /\ cpu.reg[SP] = prev.reg[SP] - 9
              /\ \A a \in 0..(RAM_SIZE - 1) :
                    cpu.ram[a] # prev.ram[a] => a \in FrameCells(prev)

\* Lines 2 and 7 were both enabled and pending: line 2 has been dispatched, line 7 is
\* still pending.
C8_Witness ==
    /\ Dispatched
    /\ Ok(cpu)
    /\ Bit(prev.reg[IM], 2) /\ Bit(prev.reg[IS], 2)
    /\ Bit(prev.reg[IM], 7) /\ Bit(prev.reg[IS], 7)
    /\ PendingLine(prev) = 2
    /\ Bit(cpu.reg[IS], 7)

\* C9: handle_interrupts called with IE = 0 changes nothing, whatever IM and IS hold; a
\* dispatch sets IE to 0; only a completed IRET sets IE back to 1; so IE is 0 from a
\* dispatch to the next IRET, and no interrupt is dispatched while another is active.
C9_NoNesting ==
    /\ (step = "interrupts" /\ prev.ie = 0) => cpu = prev
    /\ Dispatched => cpu.ie = 0
    /\ (prev.ie = 0 /\ cpu.ie # 0) => Executed(IRET)
    /\ irq.active => cpu.ie = 0
    /\ ~irq.nested

\* handle_interrupts has been called in a handler, with IE = 0 and another enabled line
\* pending.
C9_Witness ==
    /\ step = "interrupts"
    /\ prev.ie = 0
    /\ irq.active
    /\ IntRegisters(prev)
    /\ BitAnd(BitAnd(prev.reg[IM], prev.reg[IS]), 255) # 0

\* C10: every register and every memory cell holds an integer in 0..255 (arithmetic
\* wraps modulo 256, and pushes keep SP within 0..255).
C10_ByteWidth ==
    /\ \A r \in 0..(REG_COUNT - 1) : cpu.reg[r] \in 0..255
    /\ \A a \in 0..(RAM_SIZE - 1) : cpu.ram[a] \in 0..255

\* No register of m holds a float (trace formats every register with %02X).
NoFloatRegister(m) == \A r \in 0..(REG_COUNT - 1) : ~IsFloat(m.reg[r])

\* The fetch of the cycle executed last found a byte at PC that is no opcode.
FetchedUnknown ==
    /\ step = "execute"
    /\ IndexExc(prev.pc, RAM_SIZE) = "None"
    /\ FetchedIr(prev) \notin branch_table
\* The run has ended in the error of run for that byte, carrying the byte and PC, and
\* nothing of the machine but that has changed since the interrupt phase.
InvalidInstructionError ==
    /\ cpu.exc = [kind |-> "Exception", args |-> <<FetchedIr(prev), prev.pc>>]
    /\ cpu.pc = prev.pc
    /\ cpu.fl = prev.fl
    /\ cpu.ie = prev.ie
    /\ cpu.reg = prev.reg
    /\ cpu.ram = prev.ram
    /\ cpu.out = prev.out
    /\ ~cpu.halted

\* C11 as stated: whenever the byte fetched at PC is none of the 27 opcodes, the run
\* ends in the error carrying that byte and PC, with PC, FL, registers and memory as the
\* interrupt phase left them.
C11_UnknownAlwaysReported == FetchedUnknown => InvalidInstructionError

\* C11, amended: that holds when the two operand reads at PC + 1 and PC + 2 succeed and
\* no register holds a float, so that the fetch and trace complete; otherwise the run
\* ends in the IndexError of the read or the TypeError of trace, still with PC, FL,
\* registers and memory unchanged and no handler run.
C11_UnknownReportedAfterFetch ==
    FetchedUnknown =>
        /\ ~Ok(cpu)
        /\ cpu.pc = prev.pc /\ cpu.fl = prev.fl /\ cpu.reg = prev.reg
        /\ cpu.ram = prev.ram /\ cpu.out = prev.out /\ ~cpu.halted
        /\ (IndexExc(prev.pc + 2, RAM_SIZE) = "None" /\ NoFloatRegister(prev))
              => InvalidInstructionError
        /\ IndexExc(prev.pc + 2, RAM_SIZE) # "None" => cpu.exc.kind = "IndexError"
        /\ (IndexExc(prev.pc + 2, RAM_SIZE) = "None" /\ ~NoFloatRegister(prev))
              => cpu.exc.kind = "TypeError"

\* The byte 129 at address 3 has ended the run with the error naming 129 and 3.
C11_Witness ==
    /\ FetchedUnknown
    /\ FetchedIr(prev) = 129
    /\ cpu.exc = [kind |-> "Exception", args |-> <<129, 3>>]
    /\ cpu.pc = 3

\* C12: once HLT has set halted the loop makes no further pass: no timer check, no
\* interrupt dispatch, no fetch, whatever IM, IS and IE hold, and the CPU object never
\* changes again.
C12_HaltedIsTerminal ==
    [][cpu.halted => (cpu' = cpu /\ phase' = phase /\ cycles' = cycles /\ hist' = hist)]_vars

\* The run has halted in a handler, at the loop test, with an enabled line still pending
\* in IS and passes of the loop left within the bound.
C12_Witness ==
    /\ cpu.halted
    /\ Executed(HLT)
    /\ phase = "timer"
    /\ cycles < MaxCycles
    /\ BitAnd(BitAnd(cpu.reg[IM], cpu.reg[IS]), 255) # 0

\* The conditional jumps.
Jumps == {JEQ, JNE, JLT, JLE}

\* C13: a completed JEQ, JNE, JLT or JLE jumps iff its condition holds of FL (JEQ: EQ
\* set, JNE: EQ clear, JLT: LT set, JLE: LT or EQ set): when it jumps PC is reg[a], when
\* it declines PC is the address of the jump plus 2; nothing but PC changes; and after a
\* CMP exactly one of op_jeq and op_jne jumps.
C13_ConditionalJumps ==
    /\ \A jcc \in Jumps :
          Executed(jcc) =>
              /\ Taken(jcc, prev.fl) => cpu.pc = Reg(prev, FetchedA(prev))
              /\ ~Taken(jcc, prev.fl) => cpu.pc = prev.pc + 2
              /\ cpu.fl = prev.fl /\ cpu.reg = prev.reg /\ cpu.ram = prev.ram
              /\ cpu.out = prev.out
    /\ Executed(CMP) =>
          \A r \in 0..(REG_COUNT - 1) :
              (op_jeq([cpu EXCEPT !.inst_set_pc = TRUE], r, 0).inst_set_pc)
                  # (op_jne([cpu EXCEPT !.inst_set_pc = TRUE], r, 0).inst_set_pc)

\* A JNE has declined after a CMP of equal values: PC is past the jump, not at the
\* target in its register.
C13_Witness ==
    /\ Executed(JNE)
    /\ prev.fl = FL_EQ
    /\ cpu.pc = prev.pc + 2
    /\ cpu.pc # Reg(prev, FetchedA(prev))
    /\ Len(hist) >= 3
    /\ hist[Len(hist) - 2].ir = CMP

\* C14: a dispatch that returns has lowered SP by exactly 9 and stored, from the old SP
\* downward (as list indices), PC at SP-1, FL at SP-2 and the registers 0..6 in index
\* order at SP-3 .. SP-9; the stored PC is the PC the cycle began with, the address of
\* the instruction not yet executed; the stored register 6 is IS with the bit of the
\* serviced line cleared; register 7 is not stored, and no other cell is written.
C14_FrameLayout ==
    (Dispatched /\ Ok(cpu)) =>
        /\ cpu.reg[SP] = prev.reg[SP] - 9
        /\ cpu.ram[ListIndex(prev.reg[SP] - 1, RAM_SIZE)] = prev.pc
        /\ prev.pc = cyc.start.pc
        /\ cpu.ram[ListIndex(prev.reg[SP] - 2, RAM_SIZE)] = prev.fl
        /\ \A r \in 0..5 :
              cpu.ram[ListIndex(prev.reg[SP] - 3 - r, RAM_SIZE)] = prev.reg[r]
        /\ cpu.ram[ListIndex(prev.reg[SP] - 9, RAM_SIZE)]
              = BitClear(prev.reg[IS], PendingLine(prev))
        /\ \A a \in 0..(RAM_SIZE - 1) :
              a \notin FrameCells(prev) => cpu.ram[a] = prev.ram[a]

\* The timer interrupt has been dispatched from the initial stack, after the program set
\* R0 to 1: the frame holds the interrupted PC at 0xF3, R0 at 0xF1, the cleared IS at 0xEB.
C14_Witness ==
    /\ Dispatched
    /\ Ok(cpu)
    /\ prev.reg[SP] = SP_INIT
    /\ prev.reg[0] = 1
    /\ prev.pc > 0
    /\ prev.pc # prev.fl
    /\ cpu.ram[SP_INIT - 1] = prev.pc
    /\ cpu.ram[SP_INIT - 3] = 1
    /\ cpu.ram[SP_INIT - 9] # prev.reg[IS]

\* The fetch has raised IndexError and the cycle has changed nothing else.
FetchFault ==
    /\ cpu.exc.kind = "IndexError"
    /\ cpu = [prev EXCEPT !.exc = cpu.exc]
    /\ ~cpu.halted

\* C15 as stated: a cycle that begins with PC >= 254 ends the run with the out-of-range
\* read of the fetch, and runs no handler.
C15_FaultFromCycleStart ==
    (step = "execute" /\ cyc.start.pc >= 254) => FetchFault

\* C15, amended: the fetch reads PC, PC + 1 and PC + 2 whatever the width, before
\* decode: a cycle whose fetch finds PC >= 254 (PC as the interrupt phase of the cycle
\* left it) ends the run with IndexError, runs no handler even for a one-byte
\* instruction at PC, and changes nothing; and every cycle that completes had PC + 1 and
\* PC + 2 within memory.
C15_FaultAtFetch ==
    /\ (step = "execute" /\ prev.pc >= 254) => FetchFault
    /\ (step = "execute" /\ Ok(cpu)) =>
          /\ IndexExc(prev.pc + 1, RAM_SIZE) = "None"
          /\ IndexExc(prev.pc + 2, RAM_SIZE) = "None"

\* The fetch found PC = 254 with HLT there: the run has ended with IndexError, not halted.
C15_Witness ==
    /\ step = "execute"
    /\ prev.pc = 254
    /\ FetchedIr(prev) = HLT
    /\ FetchFault

\* The timer has fired in the cycle under way, which began with IE enabled and bit 0 of
\* IM set.
TimerDue == cyc.fired /\ cyc.start.ie # 0 /\ Bit(cyc.start.reg[IM], 0)

\* C16: within a cycle the timer check comes first and changes nothing of the machine
\* but bit 0 of IS, which it sets when the timer fires (and its own time stamp); then
\* handle_interrupts, then the fetch; so when the timer fires in a cycle that began with
\* IE enabled and bit 0 of IM set, line 0 is dispatched in that cycle and the instruction
\* the cycle executes is the one at the address cell 0xF8 holds.
C16_TimerThenDispatchThenFetch ==
    /\ (step = "timer" /\ Ok(cpu)) =>
          /\ phase = "interrupts"
          /\ cpu = [prev EXCEPT !.last_interrupt = cpu.last_interrupt,
                                !.reg[IS] = IF cyc.fired THEN BitOr(prev.reg[IS], IS_TIMER)
                                            ELSE prev.reg[IS]]
    /\ (step = "interrupts" /\ Ok(cpu)) => phase = "execute"
    /\ (step = "execute" /\ Ok(cpu)) => phase = "timer"
    /\ (step = "interrupts" /\ TimerDue) =>
          /\ PendingLine(prev) = 0
          /\ Ok(cpu) => (cpu.pc = cpu.ram[VECTORS] /\ ~Bit(cpu.reg[IS], 0))
    /\ (step = "execute" /\ TimerDue) =>
          /\ prev.pc = prev.ram[VECTORS]
          /\ Ok(cpu) => hist[Len(hist)].pc = prev.ram[VECTORS]

\* The timer fired in a cycle that began at another address with line 0 enabled and not
\* pending: the cycle has executed the first instruction of the handler of line 0.
C16_Witness ==
    /\ step = "execute"
    /\ Ok(cpu)
    /\ TimerDue
    /\ ~Bit(cyc.start.reg[IS], 0)
    /\ cyc.start.pc # HandlerAt(0)
    /\ prev.pc = HandlerAt(0)
    /\ hist[Len(hist)].pc = HandlerAt(0)
    /\ hist[Len(hist)].ir = cyc.start.ram[HandlerAt(0)]

\* The fetch that comes next finds DIV Ra,Rb with a and b register numbers and reg[b] = 0.
DivByZeroNext ==
    /\ phase = "execute"
    /\ Running
    /\ IndexExc(cpu.pc, RAM_SIZE) = "None"
    /\ IndexExc(cpu.pc + 2, RAM_SIZE) = "None"
    /\ NoFloatRegister(cpu)
    /\ FetchedIr(cpu) = DIV
    /\ RegExc(FetchedA(cpu)) = "None"
    /\ RegExc(FetchedB(cpu)) = "None"
    /\ Reg(cpu, FetchedB(cpu)) = 0

\* C17: DIV Ra,Rb with reg[b] = 0 ends the run with ZeroDivisionError, leaving reg[a],
\* every other register, FL, memory and PC as they were; and after that error nothing is
\* executed any more.
C17_DivisionByZeroEndsRun ==
    [][/\ DivByZeroNext =>
             /\ cpu'.exc.kind = "ZeroDivisionError"
             /\ cpu'.reg = cpu.reg /\ cpu'.fl = cpu.fl /\ cpu'.ram = cpu.ram
             /\ cpu'.pc = cpu.pc /\ cpu'.out = cpu.out /\ cpu'.ie = cpu.ie
             /\ ~cpu'.halted
             /\ hist' = hist
       /\ cpu.exc.kind = "ZeroDivisionError" => (cpu' = cpu /\ hist' = hist)]_vars

\* DIV R0,R1 with R0 = 255 and R1 = 0 has ended the run, R0 still 255 and PC at the DIV.
C17_Witness ==
    /\ step = "execute"
    /\ FetchedIr(prev) = DIV
    /\ prev.reg[0] = 255 /\ prev.reg[1] = 0
    /\ cpu.exc.kind = "ZeroDivisionError"
    /\ cpu.reg[0] = 255
    /\ cpu.pc = prev.pc
    /\ cycles < MaxCycles

\* C18: a completed IRET overwrites register 6 (IS) and register 5 (IM) with the cells
\* at SP and SP + 1, whatever they held; when the handler left the frame as the dispatch
\* left it, these are IS as it was at entry with the serviced bit cleared, and IM as it
\* was at entry: an IS bit raised while the handler ran is no longer pending, and a
\* change of IM by the handler is undone.
C18_IretOverwritesStatusAndMask ==
    /\ Executed(IRET) =>
          /\ cpu.reg[IS] = prev.ram[ListIndex(prev.reg[SP], RAM_SIZE)]
          /\ cpu.reg[IM] = prev.ram[ListIndex(prev.reg[SP] + 1, RAM_SIZE)]
    /\ IretReturned =>
          /\ cpu.reg[IS] = BitClear(irq.before.reg[IS], irq.line)
          /\ cpu.reg[IM] = irq.before.reg[IM]
          /\ \A i \in 0..7 :
                (Bit(prev.reg[IS], i) /\ (i = irq.line \/ ~Bit(irq.before.reg[IS], i)))
                    => (~Bit(cpu.reg[IS], i) /\ PendingLine(cpu) # i)

\* The timer raised bit 0 of IS while a handler that also changed IM ran: after its IRET
\* bit 0 is clear again and IM is back.
C18_Witness ==
    /\ IretReturned
    /\ Bit(prev.reg[IS], 0)
    /\ ~Bit(cpu.reg[IS], 0)
    /\ prev.reg[IM] # cpu.reg[IM]
    /\ cpu.reg[IM] = irq.before.reg[IM]

\* The RET executed last found SP and the cell at SP as the CALL recorded at hist[k]
\* left them.
ReturnsFrom(k) ==
    /\ Executed(RET)
    /\ hist[k].ir = CALL
    /\ prev.reg[SP] = hist[k].sp - 1
    /\ prev.ram[ListIndex(prev.reg[SP], RAM_SIZE)] = hist[k].pc + 2

\* C19: a completed CALL Ra at address p has stored p + 2 in the cell at SP - 1, lowered
\* SP by 1 and set PC to reg[a] (read after the push, so for a = 7 it is the lowered SP);
\* a RET that finds SP and that cell as the CALL left them ends with PC = p + 2, without a
\* further increment, and SP as it was before the CALL.
C19_CallRetRoundTrip ==
    /\ Executed(CALL) =>
          /\ cpu.ram[ListIndex(prev.reg[SP] - 1, RAM_SIZE)] = prev.pc + 2
          /\ cpu.reg[SP] = prev.reg[SP] - 1
          /\ \A r \in 0..6 : cpu.reg[r] = prev.reg[r]
          /\ cpu.pc = Reg(cpu, FetchedA(prev))
          /\ ListIndex(FetchedA(prev), REG_COUNT) # SP => cpu.pc = Reg(prev, FetchedA(prev))
    /\ \A k \in 1..(Len(hist) - 1) :
          ReturnsFrom(k) =>
              /\ cpu.pc = hist[k].pc + 2
              /\ cpu.reg[SP] = hist[k].sp

\* A subroutine that pushed and popped has returned: PC is the address after the CALL.
C19_Witness ==
    \E k \in 1..(Len(hist) - 1) :
        /\ ReturnsFrom(k)
        /\ Len(hist) >= k + 3
        /\ hist[k].sp = SP_INIT
        /\ cpu.pc = hist[k].pc + 2
        /\ cpu.reg[SP] = SP_INIT

====
